---------------------------- MODULE Spec2Model ----------------------------
(***************************************************************************)
(* FakeTree (src/fake_tree.py): the random genealogy generator.            *)
(*                                                                         *)
(* State: the FakeTree object's fields (places, images, year_now, the      *)
(* class attributes it is configured with), the Gramps objects it holds in *)
(* memory (mem), the records the database holds (db: what add_* and        *)
(* commit_* serialised at the time of the call), and the call stack of     *)
(* build() -> add_start_person / add_family (recursive).                   *)
(*                                                                         *)
(* One action per call that add_start_person / add_family makes on the     *)
(* tree (add_birth_date, add_note, add_face, the "Add parents" and "Add    *)
(* children" transactions, ...), so that every state is a state between    *)
(* two database transactions.                                              *)
(*                                                                         *)
(* Left out: names, genders, months and days, note text, coordinates,      *)
(* checksums (faker / Gramps values no decision of the code reads).        *)
(*                                                                         *)
(* The random source is explored by sampling: random.randint(a, b) at the  *)
(* two ends of its range, random.random() on the grid k/RES.  A run has a  *)
(* usual outcome for every draw (`narrow`: the low or the high end).  The  *)
(* randint draws of one invocation (`wide`) are explored with every        *)
(* sampled outcome; of the random_bool and random.choice draws and of the  *)
(* picks of add_image's loop over the set self.images, at most `flips` of  *)
(* a run come out unlike the usual outcome, at any place of the run.       *)
(***************************************************************************)
EXTENDS Integers, Sequences, FiniteSets, TLC

VARIABLES
    cfg,        \* the class attributes N_GEN, PROB_*, MAX_SIBLINGS, NUM_PLACES
    files,      \* the *.jpg files below the working directory (environment)
    year_now,   \* self.year_now
    places,     \* self.places: a list of place handles
    images,     \* self.images: the set of unused image paths
    mem,        \* handle -> the Python object with that handle
    db,         \* handle -> the record the database holds
    dup,        \* handles that db.add_* was called with while already stored
    nh,         \* number of handles minted so far (random_handle)
    nfam,       \* number of add_family invocations so far
    stack,      \* call stack, innermost frame last
    bpc,        \* position of build()
    default_person,  \* the database's default person handle
    wide, flips, narrow   \* sampling of the random source (see above)

vars == <<cfg, files, year_now, places, images, mem, db, dup, nh, nfam,
          stack, bpc, default_person, wide, flips, narrow>>

---------------------------------------------------------------------------
(* Bounds of the model *)

\* add_family invocations explored in one run
MaxFamilies == 3
\* value the runs give MAX_SIBLINGS (the class default is 9)
MaxSiblings == 2
\* value the runs give NUM_PLACES when places are used (the class default is 50)
NumPlaces == 2
\* image files per folder and tone in the non-empty media pool
ImagesPerFolder == 1
\* random.random() returns one of 0/RES .. (RES-1)/RES
RES == 4
\* random_bool, random.choice and image draws of a run that come out unlike
\* the usual outcome
MaxFlips == 1

(* Program constants *)

MIN_AGE == 55
MAX_AGE == 90
\* probabilities are held in percent
PROB_UNMARRIED == 5
PROB_PERSON_HAS_NOTE == 50
PROB_EVENT_HAS_NOTE == 50
PROB_PERSON_RELOCATED == 20
\* datetime.datetime.now().year
YEAR_NOW == 2026
START_YEAR_MIN == 1970
START_YEAR_MAX == 2000
PARENT_AGE_MAX == 40
PARENT_AGE_MIN == 20
MARRIAGE_AGE == 18
FERTILE_AGE == 40
FACE_COLOR_AFTER == 1940
FACE_GRAY_AFTER == 1860
PICTURE_COLOR_AFTER == 1950
PICTURE_GRAY_AFTER == 1880

None == 0
NoStage == 0 - 1

---------------------------------------------------------------------------
(* Generic helpers *)

Put(f, h, v) == [x \in (DOMAIN f) \cup {h} |-> IF x = h THEN v ELSE f[x]]

Max2(a, b) == IF a >= b THEN a ELSE b

Min2(a, b) == IF a <= b THEN a ELSE b

Abs(x) == IF x < 0 THEN 0 - x ELSE x

Range(s) == {s[i] : i \in 1..Len(s)}

Top == stack[Len(stack)]

SetTop(f) == [stack EXCEPT ![Len(stack)] = f]

---------------------------------------------------------------------------
(* The random source *)

\* random.randint(a, b) as drawn by invocation number st; {} when a > b
\* (randint raises ValueError)
RandInt(a, b, st) ==
    IF a > b THEN {}
    ELSE IF st = wide THEN {a, b}
    ELSE IF narrow = "low" THEN {a} ELSE {b}

\* random.choice(seq) (seq is not empty), and its usual outcome in this run
RandChoice(seq) == Range(seq)

UsualChoice(seq) == IF narrow = "low" THEN seq[1] ELSE seq[Len(seq)]

\* the values k/RES that random.random() returns, as numerators k
RandomValues == 0..(RES - 1)

\* random_bool(pn/pd): random.random() <= probability
random_bool(pn, pd) == {r * pd <= pn * RES : r \in RandomValues}

\* random_has_parents(n_gen): probability = 1 - n_gen / N_GEN
random_has_parents(n_gen) == random_bool(cfg.N_GEN - n_gen, cfg.N_GEN)

\* the usual outcome of random_bool(pn/pd) in this run, and what an outcome
\* costs: 1 when it is not the usual one
Usual(pn, pd) == (IF narrow = "low" THEN 0 ELSE RES - 1) * pd <= pn * RES

Flip(outcome, pn, pd) == IF outcome = Usual(pn, pd) THEN 0 ELSE 1

Spend(c) ==
    /\ c <= flips
    /\ flips' = flips - c

\* random_age(min_age): randint(min_age or MIN_AGE, MAX_AGE)
random_age(min_age, st) ==
    RandInt(IF min_age # 0 THEN min_age ELSE MIN_AGE, MAX_AGE, st)

---------------------------------------------------------------------------
(* Gramps objects *)

NewPerson ==
    [kind |-> "person", event_ref_list |-> <<>>, birth_ref_index |-> 0 - 1,
     death_ref_index |-> 0 - 1, parent_family_list |-> <<>>,
     family_list |-> <<>>, note_list |-> <<>>, media_list |-> <<>>]

NewFamily ==
    [kind |-> "family", father_handle |-> None, mother_handle |-> None,
     child_ref_list |-> <<>>, event_ref_list |-> <<>>, media_list |-> <<>>]

NewEvent(type, year, place) ==
    [kind |-> "event", type |-> type, year |-> year, place |-> place,
     note_list |-> <<>>, media_list |-> <<>>]

NewNote == [kind |-> "note"]

NewMedia(path) == [kind |-> "media", path |-> path]

NewPlace == [kind |-> "place"]

---------------------------------------------------------------------------
(* The part of the state the helper methods change, as one record *)

World == [mem |-> mem, db |-> db, dup |-> dup, nh |-> nh, images |-> images]

SetWorld(w) ==
    /\ mem' = w.mem
    /\ db' = w.db
    /\ dup' = w.dup
    /\ nh' = w.nh
    /\ images' = w.images

\* self.db.add_person / add_family / add_event / add_note / add_media /
\* add_place (obj, trans): the database stores the object as it is now
DbAdd(w, h) ==
    [w EXCEPT !.db = Put(w.db, h, w.mem[h]),
              !.dup = IF h \in DOMAIN w.db THEN w.dup \cup {h} ELSE w.dup]

\* self.db.commit_person / commit_family / commit_event (obj, trans)
DbCommit(w, h) == [w EXCEPT !.db = Put(w.db, h, w.mem[h])]

\* a new object with a handle from random_handle()
Mint(w, obj) == [w EXCEPT !.nh = w.nh + 1, !.mem = Put(w.mem, w.nh + 1, obj)]

\* add_note(obj)
add_note(w, obj) ==
    LET w1 == Mint(w, NewNote)
        note == w1.nh
        w2 == DbAdd(w1, note)
    IN  [w2 EXCEPT !.mem[obj].note_list = Append(@, note)]

\* add_event(obj, event_type, year, year, place_handle), year already drawn;
\* hasNote is the outcome of random_bool(PROB_EVENT_HAS_NOTE)
add_event(w, obj, type, year, place, hasNote) ==
    LET w1 == Mint(w, NewEvent(type, year, place))
        event == w1.nh
        w2 == IF hasNote THEN add_note(w1, event) ELSE w1
        w3 == DbAdd(w2, event)
    IN  [w3 EXCEPT !.mem[obj].event_ref_list = Append(@, event)]

\* the handle of the event the last add_event on w0 made, given its result w
\* (the event is minted first, a note after it)
EventOf(w0) == w0.nh + 1

add_birth_date(w, person, year, place, hasNote) ==
    LET w1 == add_event(w, person, "Birth", year, place, hasNote)
    IN  [w1 EXCEPT !.mem[person].birth_ref_index =
                        Len(w1.mem[person].event_ref_list) - 1]

\* mutant: the death is added with the body of add_birth_date
add_death_date_AsBirth(w, person, year, place, hasNote) ==
    add_birth_date(w, person, year, place, hasNote)

add_death_date(w, person, year, place, hasNote) ==
    LET w1 == add_event(w, person, "Death", year, place, hasNote)
    IN  [w1 EXCEPT !.mem[person].death_ref_index =
                        Len(w1.mem[person].event_ref_list) - 1]

\* the file names the download scripts give, in order
FileNames == <<"00001.jpg", "00002.jpg", "00003.jpg", "00004.jpg">>

\* `word in candidate_image`, a path being the sequence of its components
Contains(path, word) == \E i \in 1..Len(path) : path[i] = word

\* the candidates the loop of add_image can stop at
Matching(imgs, folder, color) ==
    {c \in imgs : /\ Contains(c, folder)
                  /\ Contains(c, IF color THEN "color" ELSE "grayscale")}

\* mutant: the image stays in the pool
RemoveImage_Keep(imgs, image) == imgs

\* self.images = self.images - {image}
RemoveImage(imgs, image) == imgs \ {image}

\* image = "": the loop of add_image found nothing
NoImage == <<>>

\* the values `image` can have after the loop of add_image, lines 216-227:
\* any candidate of the set that matches, or "" when none does
Found(imgs, folder, color) ==
    IF Matching(imgs, folder, color) = {} THEN {NoImage}
    ELSE Matching(imgs, folder, color)

\* the candidate the loop usually stops at in this run: the first or the
\* last file name
UsualFound(imgs, folder, color) ==
    IF Matching(imgs, folder, color) = {} THEN NoImage
    ELSE CHOOSE c \in Matching(imgs, folder, color) :
            \A d \in Matching(imgs, folder, color) :
                \A i, j \in 1..Len(FileNames) :
                    (FileNames[i] = c[Len(c)] /\ FileNames[j] = d[Len(d)]) =>
                        IF narrow = "low" THEN i <= j ELSE i >= j

\* add_image after its loop, lines 230-246
claim_image(w, obj, image) ==
    LET w1 == [w EXCEPT !.images = RemoveImage(w.images, image)]
        w2 == Mint(w1, NewMedia(image))
        media == w2.nh
        w3 == DbAdd(w2, media)
    IN  [w3 EXCEPT !.mem[obj].media_list = Append(@, media)]

\* mutant: without `if not image: return`, the empty path becomes a Media
add_image_NoReturn(w, obj, image) == claim_image(w, obj, image)

\* add_image(obj, folder, title, color) when its loop ended with `image`
add_image(w, obj, image) ==
    IF image = NoImage THEN w ELSE claim_image(w, obj, image)

\* a call of add_image: add_face, add_family_picture, add_wedding_picture
ImageCall(obj, folder, color) == [obj |-> obj, folder |-> folder, color |-> color]

\* add_face(person, color) as add_family calls it, lines 340-343 and 364-367
FaceCalls(person, year) ==
    IF year > FACE_COLOR_AFTER THEN {ImageCall(person, "people", TRUE)}
    ELSE IF year > FACE_GRAY_AFTER THEN {ImageCall(person, "people", FALSE)}
    ELSE {}

\* add_family_picture(family, ..., color), lines 390-397
FamilyPictureCalls(family, marriage_year) ==
    IF marriage_year > PICTURE_COLOR_AFTER THEN {ImageCall(family, "family", TRUE)}
    ELSE IF marriage_year > PICTURE_GRAY_AFTER
        THEN {ImageCall(family, "family", FALSE)}
    ELSE {}

\* add_wedding_picture(marriage, ..., color=True), lines 390-397
WeddingPictureCalls(marriage, marriage_year) ==
    IF marriage_year > PICTURE_GRAY_AFTER /\ marriage # None
        THEN {ImageCall(marriage, "wedding", TRUE)}
    ELSE {}

\* get_birth_year(person): the year of the stored birth event
get_birth_year(w, person) ==
    w.db[w.mem[person].event_ref_list[w.mem[person].birth_ref_index + 1]].year

get_birth_place_handle(w, person) ==
    w.db[w.mem[person].event_ref_list[w.mem[person].birth_ref_index + 1]].place

---------------------------------------------------------------------------
(* Construction *)

Folders == {"people", "family", "wedding"}
Tones == {"color", "grayscale"}

\* glob("**/*.jpg"): images/{folder}/{tone}/{n}.jpg, as the download scripts
\* lay them out
ImageFiles ==
    {<<"images", f, t, FileNames[n]>> :
        f \in Folders, t \in Tones, n \in 1..ImagesPerFolder}

DefaultConfig ==
    [N_GEN |-> 1, MAX_SIBLINGS |-> MaxSiblings, NUM_PLACES |-> NumPlaces,
     PROB_UNMARRIED |-> PROB_UNMARRIED,
     PROB_PERSON_HAS_NOTE |-> PROB_PERSON_HAS_NOTE,
     PROB_EVENT_HAS_NOTE |-> PROB_EVENT_HAS_NOTE,
     PROB_PERSON_RELOCATED |-> PROB_PERSON_RELOCATED]

\* the configurations and media directories of the runs: one generation with
\* no unmarried couples and the image files present, and two generations
\* with the default PROB_UNMARRIED, no places and no image files
Environments ==
    {[cfg |-> [DefaultConfig EXCEPT !.N_GEN = 1, !.PROB_UNMARRIED = 0],
      files |-> ImageFiles],
     [cfg |-> [DefaultConfig EXCEPT !.N_GEN = 2, !.NUM_PLACES = 0],
      files |-> {}]}

\* __init__
InitObject ==
    /\ \E e \in Environments : cfg = e.cfg /\ files = e.files
    /\ year_now = YEAR_NOW
    /\ places = <<>>
    /\ images = files
    /\ mem = <<>>
    /\ db = <<>>
    /\ dup = {}
    /\ nh = 0
    /\ nfam = 0
    /\ stack = <<>>
    /\ bpc = "add_places"
    /\ default_person = None
    /\ narrow \in {"low", "high"}

Init ==
    /\ InitObject
    /\ \/ wide \in 0..MaxFamilies /\ flips = 0
       \/ wide = NoStage /\ flips = MaxFlips

---------------------------------------------------------------------------
(* build(): add_places, add_start_person *)

Frame(proc, pc, person, n_gen, stage) ==
    [proc |-> proc, pc |-> pc, person |-> person, n_gen |-> n_gen,
     stage |-> stage, recursive |-> TRUE, birth_year |-> 0, birth_place |-> None,
     family |-> None, father |-> None, mother |-> None,
     father_birth_year |-> 0, mother_birth_year |-> 0, marriage_year |-> 0,
     marriage |-> None, father_death_year |-> 0, mother_death_year |-> 0,
     n_left |-> 0, year |-> 0, children |-> <<>>, child |-> None,
     death_year |-> 0]

\* add_places: NUM_PLACES places, appended to self.places and stored
RECURSIVE PlacesAdded(_, _)
PlacesAdded(w, n) ==
    IF n = 0 THEN w ELSE PlacesAdded(DbAdd(Mint(w, NewPlace), w.nh + 1), n - 1)

AddPlaces ==
    /\ bpc = "add_places"
    /\ SetWorld(PlacesAdded(World, cfg.NUM_PLACES))
    /\ places' = [i \in 1..cfg.NUM_PLACES |-> nh + i]
    /\ bpc' = "add_start_person"
    /\ stack' = <<Frame("add_start_person", "birth", None, 0, 0)>>
    /\ UNCHANGED <<cfg, files, year_now, nfam, default_person,
                   wide, flips, narrow>>

\* what no step of the build changes
Fixed == UNCHANGED <<cfg, files, year_now, places, wide, narrow>>

InProc(proc, pc) ==
    /\ stack # <<>>
    /\ Top.proc = proc
    /\ Top.pc = pc

\* the place of a person: `if random_bool(PROB_PERSON_RELOCATED) and
\* self.places` then random.choice(self.places), else the inherited place
PlaceChoices(moved, inherited) ==
    IF moved /\ places # <<>> THEN RandChoice(places) ELSE {inherited}

PlaceFlip(place, moved) ==
    IF moved /\ places # <<>> /\ place # UsualChoice(places) THEN 1 ELSE 0

\* the calls of add_image a step makes (none or one), with the draw of the
\* candidate
ImageStep(calls) ==
    IF calls = {}
    THEN UNCHANGED <<mem, db, dup, nh, images, flips>>
    ELSE \E c \in calls :
            \E image \in Found(images, c.folder, c.color) :
                /\ Spend(IF image = UsualFound(images, c.folder, c.color)
                           THEN 0 ELSE 1)
                /\ SetWorld(add_image(World, c.obj, image))

EventNote == random_bool(cfg.PROB_EVENT_HAS_NOTE, 100)

EventNoteFlip(hasNote) == Flip(hasNote, cfg.PROB_EVENT_HAS_NOTE, 100)

Relocated == random_bool(cfg.PROB_PERSON_RELOCATED, 100)

RelocatedFlip(moved) == Flip(moved, cfg.PROB_PERSON_RELOCATED, 100)

\* add_start_person, lines 275-283
StartBirth ==
    /\ InProc("add_start_person", "birth")
    /\ LET w1 == Mint(World, NewPerson)
           person == w1.nh
       IN  \E place \in PlaceChoices(TRUE, None),
              year \in RandInt(START_YEAR_MIN, START_YEAR_MAX, 0),
              hasNote \in EventNote :
             /\ Spend(PlaceFlip(place, TRUE) + EventNoteFlip(hasNote))
             /\ SetWorld(add_birth_date(w1, person, year, place, hasNote))
             /\ stack' = SetTop([Top EXCEPT !.person = person, !.pc = "note"])
    /\ UNCHANGED <<nfam, bpc, default_person>>
    /\ Fixed

\* add_start_person, line 284
StartNote ==
    /\ InProc("add_start_person", "note")
    /\ SetWorld(add_note(World, Top.person))
    /\ stack' = SetTop([Top EXCEPT !.pc = "face"])
    /\ UNCHANGED <<nfam, bpc, default_person, flips>>
    /\ Fixed

\* add_start_person, line 285
StartFace ==
    /\ InProc("add_start_person", "face")
    /\ ImageStep({ImageCall(Top.person, "people", TRUE)})
    /\ stack' = SetTop([Top EXCEPT !.pc = "commit"])
    /\ UNCHANGED <<nfam, bpc, default_person>>
    /\ Fixed

\* add_start_person, lines 287-291, and build's call of add_family
StartCommit ==
    /\ InProc("add_start_person", "commit")
    /\ nfam < MaxFamilies
    /\ SetWorld(DbAdd(World, Top.person))
    /\ default_person' = Top.person
    /\ nfam' = nfam + 1
    /\ stack' = <<Frame("add_family", "father_birth", Top.person, 0, nfam + 1)>>
    /\ bpc' = "add_family"
    /\ UNCHANGED flips
    /\ Fixed

---------------------------------------------------------------------------
(* add_family(person, recursive, n_gen) *)

Step(f) == stack' = SetTop(f)

Keep == UNCHANGED <<nfam, bpc, default_person>>

\* the build stops with the ValueError of random.randint
Raise ==
    /\ stack' = <<>>
    /\ bpc' = "ValueError"
    /\ UNCHANGED <<mem, db, dup, nh, images, nfam, default_person, flips>>

\* lines 307-337: the family, the child reference, the father and his birth
FatherBirth ==
    /\ InProc("add_family", "father_birth")
    /\ LET f == Top
           birth_year == get_birth_year(World, f.person)
           birth_place == get_birth_place_handle(World, f.person)
           w1 == Mint(World, NewFamily)
           family == w1.nh
           w2 == [w1 EXCEPT
                    !.mem[f.person].parent_family_list = Append(@, family),
                    !.mem[family].child_ref_list = Append(@, f.person)]
           w3 == Mint(w2, [NewPerson EXCEPT !.family_list = <<family>>])
           father == w3.nh
       IN  \E moved \in Relocated, hasNote \in EventNote,
              year \in RandInt(birth_year - PARENT_AGE_MAX,
                               birth_year - PARENT_AGE_MIN, f.stage) :
           \E place \in PlaceChoices(moved, birth_place) :
             LET w4 == add_birth_date(w3, father, year, place, hasNote)
                 w5 == [w4 EXCEPT !.mem[family].father_handle = father]
             IN  /\ Spend(RelocatedFlip(moved) + PlaceFlip(place, moved)
                          + EventNoteFlip(hasNote))
                 /\ SetWorld(w5)
                 /\ Step([f EXCEPT !.birth_year = birth_year,
                                   !.birth_place = birth_place,
                                   !.family = family,
                                   !.father = father,
                                   !.father_birth_year = get_birth_year(w5, father),
                                   !.pc = "father_note"])
    /\ Keep
    /\ Fixed

\* lines 338-339 (father) and 361-362 (mother), 436-437 (sibling)
PersonNote(pc, person, next) ==
    /\ InProc("add_family", pc)
    /\ \E hasNote \in random_bool(cfg.PROB_PERSON_HAS_NOTE, 100) :
         /\ Spend(Flip(hasNote, cfg.PROB_PERSON_HAS_NOTE, 100))
         /\ SetWorld(IF hasNote THEN add_note(World, person) ELSE World)
    /\ Step([Top EXCEPT !.pc = next])
    /\ Keep
    /\ Fixed

FatherNote == PersonNote("father_note", Top.father, "father_face")

\* lines 340-343 (father) and 364-367 (mother)
ParentFace(pc, person, year, next) ==
    /\ InProc("add_family", pc)
    /\ ImageStep(FaceCalls(person, year))
    /\ Step([Top EXCEPT !.pc = next])
    /\ Keep
    /\ Fixed

FatherFace ==
    ParentFace("father_face", Top.father, Top.father_birth_year, "mother_birth")

\* lines 346-360
MotherBirth ==
    /\ InProc("add_family", "mother_birth")
    /\ LET f == Top
           w1 == Mint(World, [NewPerson EXCEPT !.family_list = <<f.family>>])
           mother == w1.nh
           w2 == [w1 EXCEPT !.mem[f.family].mother_handle = mother]
       IN  \E moved \in Relocated, hasNote \in EventNote,
              year \in RandInt(f.birth_year - PARENT_AGE_MAX,
                               f.birth_year - PARENT_AGE_MIN, f.stage) :
           \E place \in PlaceChoices(moved, f.birth_place) :
             LET w3 == add_birth_date(w2, mother, year, place, hasNote)
             IN  /\ Spend(RelocatedFlip(moved) + PlaceFlip(place, moved)
                          + EventNoteFlip(hasNote))
                 /\ SetWorld(w3)
                 /\ Step([f EXCEPT !.mother = mother,
                                   !.mother_birth_year = get_birth_year(w3, mother),
                                   !.pc = "mother_note"])
    /\ Keep
    /\ Fixed

MotherNote == PersonNote("mother_note", Top.mother, "mother_face")

MotherFace ==
    ParentFace("mother_face", Top.mother, Top.mother_birth_year, "marriage")

\* the range random.randint draws marriage_year from, lines 369-371
\* mutant: the younger parent is left out (min for max)
MarriageLow_Min(father_birth_year, mother_birth_year) ==
    Min2(father_birth_year, mother_birth_year) + MARRIAGE_AGE

MarriageLow(father_birth_year, mother_birth_year) ==
    Max2(father_birth_year, mother_birth_year) + MARRIAGE_AGE

MarriageHigh(birth_year) == birth_year - 1

\* lines 369-377
Marriage ==
    /\ InProc("add_family", "marriage")
    /\ LET f == Top
           lo == MarriageLow(f.father_birth_year, f.mother_birth_year)
           hi == MarriageHigh(f.birth_year)
       IN  IF RandInt(lo, hi, f.stage) = {}
           THEN Raise
           ELSE \E marriage_year \in RandInt(lo, hi, f.stage),
                   unmarried \in random_bool(cfg.PROB_UNMARRIED, 100) :
                  IF unmarried
                  THEN /\ Spend(Flip(unmarried, cfg.PROB_UNMARRIED, 100))
                       /\ UNCHANGED <<mem, db, dup, nh, images>>
                       /\ Step([f EXCEPT !.marriage_year = marriage_year,
                                         !.marriage = None,
                                         !.pc = "father_death"])
                       /\ Keep
                  ELSE \E hasNote \in EventNote :
                         /\ Spend(Flip(unmarried, cfg.PROB_UNMARRIED, 100)
                                  + EventNoteFlip(hasNote))
                         /\ SetWorld(add_event(World, f.family, "Marriage",
                                               marriage_year, None, hasNote))
                         /\ Step([f EXCEPT !.marriage_year = marriage_year,
                                           !.marriage = EventOf(World),
                                           !.pc = "father_death"])
                         /\ Keep
    /\ Fixed

\* the min_age add_family passes to random_age, lines 379-380
MinAgeOf(marriage_year, parent_birth_year) == marriage_year - parent_birth_year + 1

\* lines 379-385: both ages are drawn, then the father's death is added
FatherDeath ==
    /\ InProc("add_family", "father_death")
    /\ LET f == Top
           fa == random_age(MinAgeOf(f.marriage_year, f.father_birth_year), f.stage)
           ma == random_age(MinAgeOf(f.marriage_year, f.mother_birth_year), f.stage)
       IN  IF fa = {} \/ ma = {}
           THEN Raise
           ELSE \E father_age \in fa, mother_age \in ma, hasNote \in EventNote :
                  /\ Spend(EventNoteFlip(hasNote))
                  /\ SetWorld(add_death_date(World, f.father,
                                             f.father_birth_year + father_age,
                                             f.birth_place, hasNote))
                  /\ Step([f EXCEPT
                        !.father_death_year = f.father_birth_year + father_age,
                        !.mother_death_year = f.mother_birth_year + mother_age,
                        !.pc = "mother_death"])
                  /\ Keep
    /\ Fixed

\* lines 386-388
MotherDeath ==
    /\ InProc("add_family", "mother_death")
    /\ \E hasNote \in EventNote :
         /\ Spend(EventNoteFlip(hasNote))
         /\ SetWorld(add_death_date(World, Top.mother, Top.mother_death_year,
                                    Top.birth_place, hasNote))
    /\ Step([Top EXCEPT !.pc = "family_picture"])
    /\ Keep
    /\ Fixed

\* lines 390-397, the calls of add_family_picture
FamilyPicture ==
    /\ InProc("add_family", "family_picture")
    /\ ImageStep(FamilyPictureCalls(Top.family, Top.marriage_year))
    /\ Step([Top EXCEPT !.pc = "wedding_picture"])
    /\ Keep
    /\ Fixed

\* lines 390-397, the calls of add_wedding_picture (color=True in both)
WeddingPicture ==
    /\ InProc("add_family", "wedding_picture")
    /\ ImageStep(WeddingPictureCalls(Top.marriage, Top.marriage_year))
    /\ Step([Top EXCEPT !.pc = "add_parents"])
    /\ Keep
    /\ Fixed

\* mutant: db.add_family is left out of the transaction
AddParentsTxn_NoFamily(w, f) ==
    LET w1 == DbAdd(w, f.father)
        w2 == DbAdd(w1, f.mother)
        w4 == DbCommit(w2, f.person)
    IN  IF f.marriage # None THEN DbCommit(w4, f.marriage) ELSE w4

\* the transaction "Add parents", lines 399-405
AddParentsTxn(w, f) ==
    LET w1 == DbAdd(w, f.father)
        w2 == DbAdd(w1, f.mother)
        w3 == DbAdd(w2, f.family)
        w4 == DbCommit(w3, f.person)
    IN  IF f.marriage # None THEN DbCommit(w4, f.marriage) ELSE w4

\* lines 399-409
AddParents ==
    /\ InProc("add_family", "add_parents")
    /\ SetWorld(AddParentsTxn(World, Top))
    /\ \E n_siblings \in RandInt(0, cfg.MAX_SIBLINGS, Top.stage) :
         Step([Top EXCEPT !.n_left = n_siblings,
                          !.year = Top.marriage_year + 1,
                          !.children = <<>>,
                          !.pc = "sibling"])
    /\ UNCHANGED flips
    /\ Keep
    /\ Fixed

\* the three `break` tests of the sibling loop, lines 415-420
SiblingTooLate(year, f) ==
    \/ year > f.mother_birth_year + FERTILE_AGE
    \/ year > f.mother_death_year - 2
    \/ year > f.father_death_year - 1

\* mutant: a sibling loop without the `continue` test
NearMainChild_Never(year, birth_year) == FALSE

\* the `continue` test of the sibling loop, line 412
NearMainChild(year, birth_year) == Abs(year - birth_year) < 2

\* lines 410-428: the head of the loop, one iteration up to the child's birth
\* and the draw of its age; the loop ends when the range is used up or at a
\* break
SiblingLoop ==
    /\ InProc("add_family", "sibling")
    /\ LET f == Top
       IN  IF f.n_left = 0
           THEN /\ Step([f EXCEPT !.pc = "recurse_father"])
                /\ UNCHANGED <<mem, db, dup, nh, images, flips>>
           ELSE \E inc \in RandInt(2, 6, f.stage) :
                  LET year == f.year + inc
                      g == [f EXCEPT !.year = year, !.n_left = f.n_left - 1]
                  IN  IF NearMainChild(year, f.birth_year)
                      THEN /\ Step(g)
                           /\ UNCHANGED <<mem, db, dup, nh, images, flips>>
                      ELSE IF SiblingTooLate(year, f)
                      THEN /\ Step([g EXCEPT !.pc = "recurse_father"])
                           /\ UNCHANGED <<mem, db, dup, nh, images, flips>>
                      ELSE LET w1 == Mint(World, [NewPerson EXCEPT
                                        !.parent_family_list = <<f.family>>])
                               child == w1.nh
                           IN  \E hasNote \in EventNote,
                                  age \in random_age(0, f.stage) :
                                 /\ Spend(EventNoteFlip(hasNote))
                                 /\ SetWorld(add_birth_date(w1, child, year,
                                                f.birth_place, hasNote))
                                 /\ Step([g EXCEPT !.child = child,
                                                   !.death_year = year + age,
                                                   !.pc = "sibling_death"])
    /\ Keep
    /\ Fixed

\* lines 429-435
SiblingDeath ==
    /\ InProc("add_family", "sibling_death")
    /\ IF Top.death_year < year_now
       THEN \E moved \in Relocated, hasNote \in EventNote :
            \E place \in PlaceChoices(moved, Top.birth_place) :
              /\ Spend(RelocatedFlip(moved) + PlaceFlip(place, moved)
                       + EventNoteFlip(hasNote))
              /\ SetWorld(add_death_date(World, Top.child, Top.death_year, place,
                                         hasNote))
       ELSE UNCHANGED <<mem, db, dup, nh, images, flips>>
    /\ Step([Top EXCEPT !.pc = "sibling_note"])
    /\ Keep
    /\ Fixed

SiblingNote == PersonNote("sibling_note", Top.child, "add_children")

\* the transaction "Add children", lines 446-449: every child of the list is
\* added, then the family is committed
RECURSIVE AddAll(_, _)
AddAll(w, hs) == IF hs = <<>> THEN w ELSE AddAll(DbAdd(w, Head(hs)), Tail(hs))

AddChildrenTxn(w, children, family) == DbCommit(AddAll(w, children), family)

\* lines 439-449
AddChildren ==
    /\ InProc("add_family", "add_children")
    /\ LET f == Top
           children == Append(f.children, f.child)
           w1 == [World EXCEPT !.mem[f.family].child_ref_list = Append(@, f.child)]
       IN  /\ SetWorld(AddChildrenTxn(w1, children, f.family))
           /\ Step([f EXCEPT !.children = children, !.pc = "sibling"])
    /\ UNCHANGED flips
    /\ Keep
    /\ Fixed

\* lines 451-455: `if self.random_has_parents(n_gen): self.add_family(parent,
\* recursive=True, n_gen=n_gen + 1)`, for the father and then for the mother
Recurse(pc, parent, next) ==
    /\ InProc("add_family", pc)
    /\ \E has_parents \in (IF Top.recursive THEN random_has_parents(Top.n_gen)
                                            ELSE {FALSE}) :
       /\ Spend(IF Top.recursive
                  THEN Flip(has_parents, cfg.N_GEN - Top.n_gen, cfg.N_GEN)
                  ELSE 0)
       /\ IF has_parents
         THEN /\ nfam < MaxFamilies
              /\ nfam' = nfam + 1
              /\ stack' = Append(SetTop([Top EXCEPT !.pc = next]),
                                 Frame("add_family", "father_birth", parent,
                                       Top.n_gen + 1, nfam + 1))
         ELSE /\ nfam' = nfam
              /\ Step([Top EXCEPT !.pc = next])
    /\ UNCHANGED <<mem, db, dup, nh, images, bpc, default_person>>
    /\ Fixed

RecurseFather == Recurse("recurse_father", Top.father, "recurse_mother")

RecurseMother == Recurse("recurse_mother", Top.mother, "return")

\* add_family returns; build() is over when the outermost call returns
Return ==
    /\ InProc("add_family", "return")
    /\ stack' = SubSeq(stack, 1, Len(stack) - 1)
    /\ bpc' = IF Len(stack) = 1 THEN "done" ELSE bpc
    /\ UNCHANGED <<mem, db, dup, nh, images, nfam, default_person, flips>>
    /\ Fixed

---------------------------------------------------------------------------
Next ==
    \/ AddPlaces
    \/ StartBirth
    \/ StartNote
    \/ StartFace
    \/ StartCommit
    \/ FatherBirth
    \/ FatherNote
    \/ FatherFace
    \/ MotherBirth
    \/ MotherNote
    \/ MotherFace
    \/ Marriage
    \/ FatherDeath
    \/ MotherDeath
    \/ FamilyPicture
    \/ WeddingPicture
    \/ AddParents
    \/ SiblingLoop
    \/ SiblingDeath
    \/ SiblingNote
    \/ AddChildren
    \/ RecurseFather
    \/ RecurseMother
    \/ Return

Spec == Init /\ [][Next]_vars

---------------------------------------------------------------------------
(* Reading the database *)

Stored(kind) == {h \in DOMAIN db : db[h].kind = kind}

\* the years of the stored events of a type that a stored person refers to
EventsOfType(p, type) ==
    {i \in 1..Len(db[p].event_ref_list) :
        /\ db[p].event_ref_list[i] \in DOMAIN db
        /\ db[db[p].event_ref_list[i]].type = type}

BirthYearOf(p) == db[db[p].event_ref_list[db[p].birth_ref_index + 1]].year

HasDeath(p) == db[p].death_ref_index >= 0

DeathYearOf(p) == db[db[p].event_ref_list[db[p].death_ref_index + 1]].year

\* the frames of add_family, and those whose sibling loop is over
FamilyFrames == {i \in 1..Len(stack) : stack[i].proc = "add_family"}

LoopOver(i) == stack[i].pc \in {"recurse_father", "recurse_mother", "return"}

---------------------------------------------------------------------------
(* C1 *)

\* C1 (as claimed): once the sibling loop of a family is over, every child of
\* its child list - the child add_family was called on and the siblings -
\* is born in [marriage_year + 1, min(mother's birth + 40, mother's death - 2,
\* father's death - 1)].
C1_ChildrenWithinCeilings ==
    \A i \in FamilyFrames :
        LoopOver(i) =>
            LET f == stack[i]
                ceiling == Min2(f.mother_birth_year + 40,
                                Min2(DeathYearOf(f.mother) - 2,
                                     DeathYearOf(f.father) - 1))
            IN  \A k \in 1..Len(db[f.family].child_ref_list) :
                    LET child == db[f.family].child_ref_list[k]
                    IN  /\ BirthYearOf(child) >= f.marriage_year + 1
                        /\ BirthYearOf(child) <= ceiling

---------------------------------------------------------------------------
(* C2 *)

PastMarriage(i) ==
    stack[i].pc \notin {"father_birth", "father_note", "father_face",
                        "mother_birth", "mother_note", "mother_face", "marriage"}

\* C2: the build never stops with the ValueError of an empty randint range;
\* in every add_family both parents are born in [Y - 40, Y - 20], the range
\* [max(father's birth, mother's birth) + 18, Y - 1] the marriage year is
\* drawn from is not empty, and the year drawn lies in it; the stored
\* marriage event carries that year.
C2_MarriageYearInRange ==
    /\ bpc # "ValueError"
    /\ \A i \in FamilyFrames :
        LET f == stack[i]
            Y == f.birth_year
            older == Max2(f.father_birth_year, f.mother_birth_year)
        IN  /\ f.pc = "marriage" =>
                /\ f.father_birth_year \in (Y - 40)..(Y - 20)
                /\ f.mother_birth_year \in (Y - 40)..(Y - 20)
                /\ older + 18 <= Y - 1
            /\ PastMarriage(i) =>
                /\ f.marriage_year >= older + 18
                /\ f.marriage_year < Y
                /\ f.marriage # None => db[f.marriage].year = f.marriage_year
                /\ Y = BirthYearOf(f.person)
                /\ f.father_birth_year = db[mem[f.father].event_ref_list[1]].year
                /\ f.mother_birth_year = db[mem[f.mother].event_ref_list[1]].year

\* a marriage year was drawn from the narrowest range, [Y - 2, Y - 1], and
\* one from a range with a parent born in Y - 40
C2_Witness ==
    \E i \in FamilyFrames :
        /\ PastMarriage(i)
        /\ stack[i].marriage # None
        /\ stack[i].father_birth_year = stack[i].birth_year - 20
        /\ stack[i].mother_birth_year = stack[i].birth_year - 40
        /\ stack[i].marriage_year = stack[i].birth_year - 2

---------------------------------------------------------------------------
(* C3 *)

\* C3: every stored person has exactly one birth event, to which
\* birth_ref_index points, and at most one death event, to which
\* death_ref_index points when there is one; a death is not before the birth.
C3_OneBirthAtMostOneDeath ==
    \A p \in Stored("person") :
        /\ Cardinality(EventsOfType(p, "Birth")) = 1
        /\ db[p].birth_ref_index + 1 \in EventsOfType(p, "Birth")
        /\ Cardinality(EventsOfType(p, "Death")) <= 1
        /\ HasDeath(p) <=> EventsOfType(p, "Death") # {}
        /\ HasDeath(p) =>
            /\ db[p].death_ref_index + 1 \in EventsOfType(p, "Death")
            /\ DeathYearOf(p) >= BirthYearOf(p)

\* the build is over; the store holds the anchor (no death), parents (a
\* death each), a sibling with a death event and a sibling without
C3_Witness ==
    /\ bpc = "done"
    /\ ~HasDeath(default_person)
    /\ \E fam \in Stored("family") :
        /\ HasDeath(db[fam].father_handle)
        /\ HasDeath(db[fam].mother_handle)
        /\ \E k \in 2..Len(db[fam].child_ref_list) :
                HasDeath(db[fam].child_ref_list[k])
    /\ \E fam \in Stored("family") :
        \E k \in 2..Len(db[fam].child_ref_list) :
            ~HasDeath(db[fam].child_ref_list[k])

---------------------------------------------------------------------------
(* C4 *)

MediaPaths == {db[m].path : m \in Stored("media")}

\* C4: the pool only holds files that no Media record has claimed, no image
\* outside the directory is ever in it, and no two Media records have the
\* same path.
C4_ImagesClaimedOnce ==
    /\ images \subseteq files
    /\ MediaPaths \cap images = {}
    /\ MediaPaths \subseteq files
    /\ \A m1, m2 \in Stored("media") : db[m1].path = db[m2].path => m1 = m2

\* the anchor claimed the one colour portrait, and a father born after 1940
\* asked for a colour portrait later and got none
C4_Witness ==
    /\ files # {}
    /\ default_person # None
    /\ db[default_person].media_list # <<>>
    /\ \E i \in FamilyFrames :
        /\ PastMarriage(i)
        /\ stack[i].father_birth_year > FACE_COLOR_AFTER
        /\ mem[stack[i].father].media_list = <<>>
    /\ Cardinality(Stored("media")) >= 2

---------------------------------------------------------------------------
(* C5 *)

\* C5 (as claimed): no invocation of add_family has n_gen >= N_GEN.
C5_DepthBelowNGen == \A i \in FamilyFrames : stack[i].n_gen < cfg.N_GEN

---------------------------------------------------------------------------
(* C6 *)

HasMarriageEvent(fam) ==
    \E k \in 1..Len(db[fam].event_ref_list) :
        db[db[fam].event_ref_list[k]].type = "Marriage"

\* C6 (as claimed): with N_GEN = 1 and PROB_UNMARRIED = 0 a finished build has
\* called add_family once: the anchor has one parental family with a father,
\* a mother and a marriage event, and neither parent has a parental family.
C6_OneGenerationOnly ==
    (cfg.N_GEN = 1 /\ cfg.PROB_UNMARRIED = 0 /\ bpc = "done") =>
        /\ nfam = 1
        /\ Len(db[default_person].parent_family_list) = 1
        /\ LET fam == db[default_person].parent_family_list[1]
           IN  /\ db[fam].father_handle # None
               /\ db[fam].mother_handle # None
               /\ HasMarriageEvent(fam)
               /\ db[db[fam].father_handle].parent_family_list = <<>>
               /\ db[db[fam].mother_handle].parent_family_list = <<>>

---------------------------------------------------------------------------
(* C7 *)

\* C7 (as claimed): db.add_* is never called with a handle the database
\* already holds.
C7_NoDuplicateAdd == dup = {}

---------------------------------------------------------------------------
(* C8 *)

IsStored(h, kind) == h \in DOMAIN db /\ db[h].kind = kind

Resolves(refs, kind) == \A k \in 1..Len(refs) : IsStored(refs[k], kind)

Holds(refs, h) == \E k \in 1..Len(refs) : refs[k] = h

\* C8: between two transactions every reference of a stored record names a
\* stored record of the right kind, and every stored family is linked both
\* ways: its parents have it as their own family, its children as their
\* parental family.
C8_ReferencesResolve ==
    /\ \A p \in Stored("person") :
        /\ Resolves(db[p].event_ref_list, "event")
        /\ Resolves(db[p].parent_family_list, "family")
        /\ Resolves(db[p].family_list, "family")
        /\ Resolves(db[p].note_list, "note")
        /\ Resolves(db[p].media_list, "media")
    /\ \A fam \in Stored("family") :
        /\ IsStored(db[fam].father_handle, "person")
        /\ IsStored(db[fam].mother_handle, "person")
        /\ Resolves(db[fam].child_ref_list, "person")
        /\ Resolves(db[fam].event_ref_list, "event")
        /\ Resolves(db[fam].media_list, "media")
        /\ Holds(db[db[fam].father_handle].family_list, fam)
        /\ Holds(db[db[fam].mother_handle].family_list, fam)
        /\ \A k \in 1..Len(db[fam].child_ref_list) :
            Holds(db[db[fam].child_ref_list[k]].parent_family_list, fam)
    /\ \A e \in Stored("event") :
        /\ db[e].place # None => IsStored(db[e].place, "place")
        /\ Resolves(db[e].note_list, "note")
        /\ Resolves(db[e].media_list, "media")

\* the build is over, with a family that has a sibling, a picture and a
\* marriage event with a note, a wedding picture and parents with notes, and
\* events with places
C8_Witness ==
    /\ bpc = "done"
    /\ \E fam \in Stored("family") :
        /\ Len(db[fam].child_ref_list) >= 2
        /\ db[fam].media_list # <<>>
        /\ \E k \in 1..Len(db[fam].event_ref_list) :
            db[db[fam].event_ref_list[k]].media_list # <<>>
        /\ db[db[fam].father_handle].parent_family_list # <<>>
    /\ \E e \in Stored("event") : db[e].place # None /\ db[e].note_list # <<>>

---------------------------------------------------------------------------
(* C9 *)

\* the call of add_image the next step makes, if it makes one
NextImageCalls ==
    IF stack = <<>> THEN {}
    ELSE IF Top.proc = "add_start_person"
        THEN (IF Top.pc = "face" THEN {ImageCall(Top.person, "people", TRUE)}
              ELSE {})
    ELSE IF Top.pc = "father_face"
        THEN FaceCalls(Top.father, Top.father_birth_year)
    ELSE IF Top.pc = "mother_face"
        THEN FaceCalls(Top.mother, Top.mother_birth_year)
    ELSE IF Top.pc = "family_picture"
        THEN FamilyPictureCalls(Top.family, Top.marriage_year)
    ELSE IF Top.pc = "wedding_picture"
        THEN WeddingPictureCalls(Top.marriage, Top.marriage_year)
    ELSE {}

NoMedia ==
    /\ Stored("media") = {}
    /\ \A h \in DOMAIN db :
        db[h].kind \in {"person", "family", "event"} => db[h].media_list = <<>>
    /\ \A h \in DOMAIN mem :
        mem[h].kind \in {"person", "family", "event"} => mem[h].media_list = <<>>

\* C9: a call of add_image that finds no image of its folder and tone in the
\* pool leaves the pool, the objects and the database as they are and the
\* build goes on with its next step; with no image file at all the build
\* never stops with an error and no Media record and no media reference is
\* ever made.
C9_PoolExhaustionIsSoft ==
    [][/\ \A c \in NextImageCalls :
            Matching(images, c.folder, c.color) = {} =>
                /\ images' = images
                /\ db' = db
                /\ mem' = mem
                /\ nh' = nh
                /\ bpc' = bpc
                /\ stack' # <<>>
                /\ stack'[Len(stack')].pc # Top.pc
       /\ (files = {}) => (bpc' # "ValueError" /\ NoMedia')]_vars

\* a finished build with no image file, in which add_face was called for the
\* anchor and for a parent and add_family_picture and add_wedding_picture
\* for a married couple
C9_Witness ==
    /\ bpc = "done"
    /\ files = {}
    /\ \E fam \in Stored("family") :
        /\ BirthYearOf(db[fam].father_handle) > FACE_GRAY_AFTER
        /\ HasMarriageEvent(fam)
        /\ \E k \in 1..Len(db[fam].event_ref_list) :
            db[db[fam].event_ref_list[k]].year > PICTURE_GRAY_AFTER

---------------------------------------------------------------------------
(* C10 *)

\* C10 (as claimed): every parent's age at death lies in MIN_AGE..MAX_AGE and
\* is at least the age at marriage plus 1.
C10_ParentAgeInBand ==
    \A fam \in Stored("family") :
        \A i \in FamilyFrames :
            stack[i].family = fam =>
                LET f == stack[i]
                    father_age == DeathYearOf(f.father) - BirthYearOf(f.father)
                    mother_age == DeathYearOf(f.mother) - BirthYearOf(f.mother)
                IN  /\ father_age \in MIN_AGE..MAX_AGE
                    /\ mother_age \in MIN_AGE..MAX_AGE
                    /\ father_age >= f.marriage_year - BirthYearOf(f.father) + 1
                    /\ mother_age >= f.marriage_year - BirthYearOf(f.mother) + 1

---------------------------------------------------------------------------
(* C11 *)

\* the children of every stored family are born at least 2 years apart
ChildrenApart ==
    \A fam \in DOMAIN db :
        db[fam].kind = "family" =>
            \A k, l \in 1..Len(db[fam].child_ref_list) :
                k # l =>
                    Abs(BirthYearOf(db[fam].child_ref_list[k])
                        - BirthYearOf(db[fam].child_ref_list[l])) >= 2

\* C11: in every stored family any two distinct children, the anchor child
\* included, are born at least 2 years apart; every iteration of the sibling
\* loop advances the candidate year by 2 to 6; and a candidate less than 2
\* years from the anchor's birth year is skipped: the loop goes on with the
\* next iteration, no person is made and no child list changes.
C11_ChildrenTwoYearsApart ==
    [][/\ ChildrenApart'
       /\ (InProc("add_family", "sibling") /\ Top.n_left > 0) =>
            /\ Len(stack') = Len(stack)
            /\ stack'[Len(stack')].year - Top.year \in 2..6
            /\ NearMainChild(stack'[Len(stack')].year, Top.birth_year) =>
                  /\ stack'[Len(stack')].pc = "sibling"
                  /\ stack'[Len(stack')].n_left = Top.n_left - 1
                  /\ stack'[Len(stack')].children = Top.children
                  /\ nh' = nh
                  /\ db' = db
                  /\ mem' = mem]_vars

\* the sibling loop has just skipped a candidate next to the anchor's birth
\* year and has iterations left, and a family with two children or more is
\* stored
C11_Witness ==
    /\ InProc("add_family", "sibling")
    /\ Top.n_left > 0
    /\ Top.year > Top.marriage_year + 1
    /\ NearMainChild(Top.year, Top.birth_year)
    /\ \E fam \in Stored("family") : Len(db[fam].child_ref_list) >= 2

====
